---- MODULE Spec2Model ----
(***************************************************************************)
(* Model of the browser-side controller of the flight route search page    *)
(* (static/script.js, the version with the schedule-conflict panel).       *)
(*                                                                         *)
(* The state is the part of the DOM and of the closure of the              *)
(* DOMContentLoaded callback that the handlers read and write.  Every      *)
(* action is the run of one handler between two suspension points.  A      *)
(* handler is suspended at await fetch(...) and again at                   *)
(* await response.json(); between the two it only tests response.ok, so    *)
(* the arrival of the status line and of the body are one step here.       *)
(***************************************************************************)
EXTENDS Integers, Sequences, FiniteSets, TLC

\* ------------------------------------------------------------------ bounds

\* Number of form submissions in one behaviour (warning banners are never
\* removed by the code, so the DOM grows with every search).
MaxSearches == 2

\* Number of conflict-report loads that may be in flight at once.
MaxLoads == 1

\* ------------------------------------------------------------ static data

Criteria == {"cheapest", "fastest", "best"}

\* The order in which validateCurrentPath walks the criteria, which is also
\* the key order of the result sets the backend sends.
CriteriaOrder == <<"cheapest", "fastest", "best">>

\* Airport codes that have an entry in the airportCoordinates lookup.
HasCoordinates == {"JFK", "ORD", "LAX"}

\* Values the user can type in the start-airport input.
StartInputs == {"jfk", "ZZZ"}

\* String.prototype.toUpperCase on the strings that occur.
ToUpperCase(s) ==
    CASE s = "jfk" -> "JFK"
      [] s = "lax" -> "LAX"
      [] OTHER -> s

MsPerHour == 3600000
MsPerMinute == 60000

\* ------------------------------------------------------- backend responses

Leg(fn, dest, dep, arr, cost) ==
    [flight_number |-> fn, destination |-> dest,
     departure_utc |-> dep, arrival_utc |-> arr, cost |-> cost]

\* JFK -> ORD, 1 h 59 min 30 s
LegA == Leg("AA100", "ORD", 0, 7170000, 12050)
\* ORD -> LAX, 4 h 10 min
LegB == Leg("UA200", "LAX", 10800000, 25800000, 9900)
\* JFK -> LAX direct, 5 h 30 min
LegC == Leg("DL300", "LAX", 3600000, 23400000, 31000)
\* towards an airport without coordinates, arrival before departure
LegD == Leg("ZZ400", "ZZZ", 7200000, 3600000, 500)
\* arrival a day before departure
LegE == Leg("AA500", "LAX", 90000000, 0, 20000)

Found(path) == [status |-> "found", path |-> path]
NotFound == [status |-> "not_found"]

\* every criterion found; cheapest and best share their flights
RSFull ==
    [cheapest |-> Found(<<LegA, LegB>>), fastest |-> Found(<<LegC>>),
     best |-> Found(<<LegA, LegB>>)]
\* well-formed response without any found route
RSNone == [cheapest |-> NotFound, fastest |-> NotFound, best |-> NotFound]
\* a found route with an empty leg sequence
RSEmptyPath ==
    [cheapest |-> Found(<<LegC>>), fastest |-> Found(<<>>), best |-> NotFound]
\* a response without the "cheapest" key and with data errors: a route with
\* one invalid leg through an airport that has no coordinates, and a route
\* that arrives before it departs
RSPartial ==
    [fastest |-> Found(<<LegA, LegD, LegB>>), best |-> Found(<<LegE>>)]

\* Bodies the route-search endpoint answers with.
ResultSets == {RSFull, RSNone, RSPartial, RSEmptyPath}

\* let currentResults = {};
EmptyResults == [k \in {} |-> NotFound]

\* ---------------------------------------------------------- pure functions

RECURSIVE SumCost(_)
SumCost(path) ==
    IF path = <<>> THEN 0 ELSE path[1].cost + SumCost(Tail(path))

\* Math.floor(d) of a non-negative duration of ms milliseconds, in hours
FloorHours(ms) == ms \div MsPerHour

\* Math.round((d % 1) * 60): the fraction of the hour, in minutes, rounded
\* half up.  The value is in 0..60: a fraction of 59.5 minutes or more
\* rounds to 60.  In double arithmetic the product can fall just below an
\* exact half minute (1 h 0 min 30 s gives 0); the durations of the legs
\* above are not among those.
RoundMinutes(ms) == ((ms % MsPerHour) + (MsPerMinute \div 2)) \div MsPerMinute

\* Mutant of LegEntry: the origin is the destination of the last leg before
\* index that was not flagged for invalid times.
LegEntrySkippingInvalid(path, index, startNode) ==
    LET leg == path[index]
        valid == {j \in 1..(index - 1) :
                     path[j].arrival_utc - path[j].departure_utc >= 0}
        origin == IF valid = {} THEN startNode
                  ELSE path[CHOOSE j \in valid :
                                \A h \in valid : h <= j].destination
        duration == leg.arrival_utc - leg.departure_utc
    IN  IF duration < 0
        THEN [kind |-> "error-leg", flight_number |-> leg.flight_number]
        ELSE [kind |-> "leg", flight_number |-> leg.flight_number,
              cost |-> leg.cost, origin |-> origin,
              destination |-> leg.destination,
              hours |-> FloorHours(duration),
              minutes |-> RoundMinutes(duration)]

\* The entry displayAllResults appends for leg number index of path.
LegEntry(path, index, startNode) ==
    LET leg == path[index]
        origin == IF index = 1 THEN startNode ELSE path[index - 1].destination
        duration == leg.arrival_utc - leg.departure_utc
    IN  IF duration < 0
        THEN [kind |-> "error-leg", flight_number |-> leg.flight_number]
        ELSE [kind |-> "leg", flight_number |-> leg.flight_number,
              cost |-> leg.cost, origin |-> origin,
              destination |-> leg.destination,
              hours |-> FloorHours(duration),
              minutes |-> RoundMinutes(duration)]

\* Whether rendering this result throws (reading a property of undefined).
RenderThrows(result) == result.status = "found" /\ result.path = <<>>

\* Mutant of RenderPane: the total duration is not tested, so a route that
\* arrives before it departs gets its aggregate line and its legs.
RenderPaneUnchecked(result, startNode) ==
    IF result.status = "found"
    THEN [kind |-> "route",
          totalCost |-> SumCost(result.path),
          hours |-> 0, minutes |-> 0,
          stops |-> Len(result.path) - 1,
          legs |-> [i \in 1..Len(result.path) |->
                       LegEntry(result.path, i, startNode)]]
    ELSE [kind |-> "no-route"]

\* The content displayAllResults writes into the pane of one criterion.
RenderPane(result, startNode) ==
    IF result.status = "found"
    THEN LET path == result.path
             totalDuration ==
                 path[Len(path)].arrival_utc - path[1].departure_utc
         IN  IF totalDuration < 0
             THEN [kind |-> "data-error"]
             ELSE [kind |-> "route",
                   totalCost |-> SumCost(path),
                   hours |-> FloorHours(totalDuration),
                   minutes |-> RoundMinutes(totalDuration),
                   stops |-> Len(path) - 1,
                   legs |-> [i \in 1..Len(path) |->
                                LegEntry(path, i, startNode)]]
    ELSE [kind |-> "no-route"]

\* Object.entries(results): the keys in the order of the response.
KeysOf(results) ==
    SelectSeq(CriteriaOrder, LAMBDA k : k \in DOMAIN results)

\* The loop of displayAllResults over the entries keys of results, starting
\* from pane contents p: the panes after the loop and whether it threw.
RECURSIVE RenderLoop(_, _, _, _)
RenderLoop(keys, results, startNode, p) ==
    IF keys = <<>> THEN [panes |-> p, threw |-> FALSE]
    ELSE IF RenderThrows(results[Head(keys)])
         THEN [panes |-> p, threw |-> TRUE]
         ELSE RenderLoop(Tail(keys), results, startNode,
                  [p EXCEPT ![Head(keys)] =
                      RenderPane(results[Head(keys)], startNode)])

\* Object.values(currentResults).some(result => result.status === 'found')
HasAnyRoute(results) ==
    \E k \in DOMAIN results : results[k].status = "found"

\* results[tabId]?.path as a set: empty when undefined.
PathOf(results, tabId) ==
    IF tabId \in DOMAIN results /\ "path" \in DOMAIN results[tabId]
    THEN {results[tabId].path} ELSE {}

\* Mutant of AddAll: an array push instead of a Set add.
AddAllKeepingDuplicates(acc, fns) == acc \o fns

\* Set.prototype.add over a sequence: keeps the first occurrence of each.
RECURSIVE AddAll(_, _)
AddAll(acc, fns) ==
    IF fns = <<>> THEN acc
    ELSE AddAll(IF \E i \in 1..Len(acc) : acc[i] = Head(fns)
                THEN acc ELSE Append(acc, Head(fns)), Tail(fns))

\* The flight numbers validateCurrentPath collects, in insertion order.
RECURSIVE CollectFlightNumbers(_, _, _)
CollectFlightNumbers(types, results, acc) ==
    IF types = <<>> THEN acc
    ELSE LET p == PathOf(results, Head(types))
             fns == IF p = {} THEN <<>>
                    ELSE LET path == CHOOSE x \in p : TRUE
                         IN  [i \in 1..Len(path) |-> path[i].flight_number]
         IN  CollectFlightNumbers(Tail(types), results, AddAll(acc, fns))

AllFlightNumbers(results) == CollectFlightNumbers(CriteriaOrder, results, <<>>)

\* The layers drawMapRoute adds to the cleared route layer, and the bounds it
\* fits the map view to (the empty set: the view is left alone).  A
\* coordinate pair is represented by its airport code.  The view frame of
\* the map widget is read by no handler and is not part of the state.
DrawMapRoute(pathOpt, startNode) ==
    IF pathOpt = {} \/ startNode \notin HasCoordinates
    THEN [layers |-> <<>>, bounds |-> {}]
    ELSE LET path == CHOOSE x \in pathOpt : TRUE
             codes == <<startNode>> \o
                      [i \in 1..Len(path) |-> path[i].destination]
             n == Len(codes)
             Popup(i) == IF i = 1 THEN "Origin"
                         ELSE IF i = n THEN "Destination" ELSE "Layover"
             all == [i \in 1..n |->
                        [type |-> "marker", at |-> codes[i],
                         popup |-> Popup(i)]]
             markers == SelectSeq(all, LAMBDA m : m.at \in HasCoordinates)
             line == SelectSeq(codes, LAMBDA c : c \in HasCoordinates)
         IN  [layers |-> Append(markers,
                                [type |-> "polyline", points |-> line]),
              bounds |-> {line[i] : i \in 1..Len(line)}]

\* The banner showCollisionWarning builds for the conflicts of search gen.
Warning(gen, conflicts) ==
    [search |-> gen, count |-> Len(conflicts),
     flights |-> [i \in 1..Len(conflicts) |-> conflicts[i].flight]]

\* Mutant of InsertWarning: appendChild instead of insertBefore firstChild.
InsertWarningLast(list, warning) == Append(list, warning)

\* resultsPanel.insertBefore(warning, resultsPanel.firstChild)
InsertWarning(list, warning) == <<warning>> \o list

\* ------------------------------------------------------------------- state

VARIABLES
    startInput,            \* value of the #start-airport input
    loadingSpinnerHidden,  \* #loading-spinner has class hidden
    resultsTabsHidden,     \* #results-tabs has class hidden
    collisionPanelHidden,  \* #collision-panel has class hidden
    collisionLoadingHidden,\* #collision-loading has class hidden
    collisionData,         \* innerHTML of #collision-data
    warnings,              \* .collision-warning children of #results-tabs,
                           \* first child first
    panes,                 \* innerHTML of each .tab-pane
    activeTab,             \* the tab button and pane carrying class active
    routeLayer,            \* layers of the routeLayer group, in insertion order
    currentResults,        \* let currentResults
    searches,              \* runs of the submit handler, in submission order
    loads,                 \* number of runs of loadCollisionData in flight
    event                  \* the step taken last: the handler that ran, the
                           \* run it belongs to, what it was resumed with and
                           \* the alert() it raised

vars == <<startInput, loadingSpinnerHidden, resultsTabsHidden,
          collisionPanelHidden, collisionLoadingHidden, collisionData,
          warnings, panes, activeTab, routeLayer, currentResults,
          searches, loads, event>>

\* Mutant of ClearLayers: the layer group is not cleared.
ClearLayersKeeps(layer) == layer

\* routeLayer.clearLayers()
ClearLayers(layer) == <<>>

NoAlert == [text |-> "", detail |-> ""]

\* alert(`Error: Could not fetch flight data. ${error.message}`)
FetchErrorAlert(message) ==
    [text |-> "Error: Could not fetch flight data.", detail |-> message]

\* alert(`No routes found between ${start} and ${end}. ...`)
NoRoutesAlert(start) == [text |-> "No routes found between", detail |-> start]

\* `Error loading collision data: ${error.message}`
CollisionError(message) ==
    [text |-> "Error loading collision data", detail |-> message]

NoCollisionData == [text |-> "", detail |-> ""]
CollisionReport == [text |-> "Overall Statistics", detail |-> ""]

Event(handler, run, outcome, alert) ==
    [handler |-> handler, run |-> run, outcome |-> outcome, alert |-> alert]

Init ==
    /\ startInput \in StartInputs
    /\ loadingSpinnerHidden = TRUE
    /\ resultsTabsHidden = TRUE
    /\ collisionPanelHidden = TRUE
    /\ collisionLoadingHidden = TRUE
    /\ collisionData = NoCollisionData
    /\ warnings = <<>>
    /\ panes = [c \in Criteria |-> [kind |-> "empty"]]
    /\ activeTab \in Criteria
    /\ routeLayer = <<>>
    /\ currentResults = EmptyResults
    /\ searches = <<>>
    /\ loads = 0
    /\ event = Event("DOMContentLoaded", 0, "", NoAlert)

\* ------------------------------------------------------------ user actions

\* The user types into the start-airport input.
EditStart(v) ==
    /\ v \in StartInputs
    /\ v # startInput
    /\ startInput' = v
    /\ event' = Event("input", 0, v, NoAlert)
    /\ UNCHANGED <<loadingSpinnerHidden, resultsTabsHidden,
                   collisionPanelHidden, collisionLoadingHidden,
                   collisionData, warnings, panes, activeTab, routeLayer,
                   currentResults, searches, loads>>

\* Mutant of ActivateTab: drawMapRoute adds to the layer group without
\* clearing it first.
ActivateTabAccumulates(tabId, results) ==
    /\ activeTab' = tabId
    /\ routeLayer' = routeLayer \o
           DrawMapRoute(PathOf(results, tabId), ToUpperCase(startInput)).layers

\* The click handler of a tab button, on the results object in results.
ActivateTab(tabId, results) ==
    LET startNode == ToUpperCase(startInput)
        drawn == DrawMapRoute(PathOf(results, tabId), startNode)
    IN  /\ activeTab' = tabId
        /\ routeLayer' = ClearLayers(routeLayer) \o drawn.layers

TabClick(tabId) ==
    /\ tabId \in Criteria
    /\ ActivateTab(tabId, currentResults)
    /\ event' = Event("tab", 0, tabId, NoAlert)
    /\ UNCHANGED <<startInput, loadingSpinnerHidden, resultsTabsHidden,
                   collisionPanelHidden, collisionLoadingHidden,
                   collisionData, warnings, panes, currentResults,
                   searches, loads>>

\* viewCollisionsBtn click, up to the await of fetch in loadCollisionData.
ViewCollisions ==
    /\ loads < MaxLoads
    /\ resultsTabsHidden' = TRUE
    /\ collisionPanelHidden' = FALSE
    /\ collisionLoadingHidden' = FALSE
    /\ collisionData' = NoCollisionData
    /\ loads' = loads + 1
    /\ event' = Event("view-collisions", 0, "", NoAlert)
    /\ UNCHANGED <<startInput, loadingSpinnerHidden, warnings, panes,
                   activeTab, routeLayer, currentResults, searches>>

\* Mutant of CloseCollisions: the results panel is shown whatever
\* currentResults holds.
CloseCollisionsAlwaysShows ==
    /\ collisionPanelHidden' = TRUE
    /\ resultsTabsHidden' = FALSE
    /\ event' = Event("close-collisions", 0, "", NoAlert)
    /\ UNCHANGED <<startInput, loadingSpinnerHidden, collisionLoadingHidden,
                   collisionData, warnings, panes, activeTab, routeLayer,
                   currentResults, searches, loads>>

\* closeCollisionBtn click.
CloseCollisions ==
    /\ collisionPanelHidden' = TRUE
    /\ resultsTabsHidden' =
           IF DOMAIN currentResults # {} THEN FALSE ELSE resultsTabsHidden
    /\ event' = Event("close-collisions", 0, "", NoAlert)
    /\ UNCHANGED <<startInput, loadingSpinnerHidden, collisionLoadingHidden,
                   collisionData, warnings, panes, activeTab, routeLayer,
                   currentResults, searches, loads>>

\* --------------------------------------------------- loadCollisionData runs

\* A run of loadCollisionData resumes with outcome and ends leaving content
\* in #collision-data; the finally block hides the loading indicator.
LoadEnds(outcome, content) ==
    /\ loads > 0
    /\ loads' = loads - 1
    /\ collisionData' = content
    /\ collisionLoadingHidden' = TRUE
    /\ event' = Event("collision-report", 0, outcome, NoAlert)
    /\ UNCHANGED <<startInput, loadingSpinnerHidden, resultsTabsHidden,
                   collisionPanelHidden, warnings, panes, activeTab,
                   routeLayer, currentResults, searches>>

\* fetch('/api/collision-report') or response.json() rejects, or
\* displayCollisionData throws on a body that lacks a field it reads.
ReportRejected == LoadEnds("rejected", CollisionError("TypeError"))

\* if (!response.ok) throw new Error('Failed to fetch collision data')
ReportNotOk ==
    LoadEnds("not_ok", CollisionError("Failed to fetch collision data"))

\* displayCollisionData(data) on a well-formed body.
ReportReceived == LoadEnds("report", CollisionReport)

\* --------------------------------------------------- submit handler runs

\* The closure of one run of the submit handler: where it is suspended, its
\* requestData.start, and the flight_numbers it sent for validation.
NewSearch(start) == [pc |-> "fetch", start |-> start, payload |-> <<>>]

\* form submit, up to the await of fetch('/api/find-routes').
Submit ==
    /\ Len(searches) < MaxSearches
    /\ loadingSpinnerHidden' = FALSE
    /\ resultsTabsHidden' = TRUE
    /\ collisionPanelHidden' = TRUE
    /\ routeLayer' = ClearLayers(routeLayer)
    /\ searches' = Append(searches, NewSearch(ToUpperCase(startInput)))
    /\ event' = Event("submit", Len(searches) + 1, "", NoAlert)
    /\ UNCHANGED <<startInput, collisionLoadingHidden, collisionData,
                   warnings, panes, activeTab, currentResults,
                   loads>>

\* The finally block of the submit handler in run i; the run is over and
\* only its requestData.start is kept.
Finally(i) ==
    /\ loadingSpinnerHidden' = TRUE
    /\ searches' = [searches EXCEPT ![i].pc = "done", ![i].payload = <<>>]

\* Mutant of Catch: the spinner is hidden at the end of the try block
\* instead of in a finally block, so a run that fails leaves it showing.
CatchWithoutFinally(i, outcome, message) ==
    /\ event' = Event("find-routes", i, outcome, FetchErrorAlert(message))
    /\ searches' = [searches EXCEPT ![i].pc = "done", ![i].payload = <<>>]
    /\ UNCHANGED loadingSpinnerHidden

\* The catch block of the submit handler in run i, resumed with outcome.
Catch(i, outcome, message) ==
    /\ event' = Event("find-routes", i, outcome, FetchErrorAlert(message))
    /\ Finally(i)

SearchFrame ==
    UNCHANGED <<startInput, collisionPanelHidden, collisionLoadingHidden,
                collisionData, loads>>

\* fetch('/api/find-routes') or response.json() rejects.
FetchRoutesRejected(i) ==
    /\ i \in 1..Len(searches) /\ searches[i].pc = "fetch"
    /\ Catch(i, "rejected", "TypeError")
    /\ UNCHANGED <<resultsTabsHidden, warnings, panes, activeTab, routeLayer,
                   currentResults>>
    /\ SearchFrame

\* Mutant of FetchRoutesNotOk: the status is not tested and the error
\* body is taken for a result set without routes, with no alert.
FetchRoutesNotOkSilent(i) ==
    /\ i \in 1..Len(searches) /\ searches[i].pc = "fetch"
    /\ event' = Event("find-routes", i, "not_ok", NoAlert)
    /\ Finally(i)
    /\ UNCHANGED <<resultsTabsHidden, warnings, panes, activeTab, routeLayer,
                   currentResults>>
    /\ SearchFrame

\* if (!response.ok) throw new Error(`HTTP error! status: ...`)
FetchRoutesNotOk(i) ==
    /\ i \in 1..Len(searches) /\ searches[i].pc = "fetch"
    /\ Catch(i, "not_ok", "HTTP error! status")
    /\ UNCHANGED <<resultsTabsHidden, warnings, panes, activeTab, routeLayer,
                   currentResults>>
    /\ SearchFrame

\* displayAllResults(results, startNode) on the panes as they are, without
\* the click it ends with.
DisplayAllResults(results, startNode) ==
    RenderLoop(KeysOf(results), results, startNode, panes)

\* currentResults = await response.json() and the rest of the try block, up
\* to the await of fetch('/api/validate-path').
RoutesReceived(i, rs) ==
    /\ i \in 1..Len(searches) /\ searches[i].pc = "fetch"
    /\ rs \in ResultSets
    /\ currentResults' = rs
    /\ LET startNode == searches[i].start
           shown == DisplayAllResults(rs, startNode)
           flightNumbers == AllFlightNumbers(rs)
       IN  IF ~HasAnyRoute(rs)
           THEN /\ event' = Event("find-routes", i, "no-routes",
                                  NoRoutesAlert(startNode))
                /\ Finally(i)
                /\ UNCHANGED <<resultsTabsHidden, panes, activeTab,
                               routeLayer>>
           ELSE IF shown.threw
           THEN /\ panes' = shown.panes
                /\ Catch(i, "threw", "TypeError")
                /\ UNCHANGED <<resultsTabsHidden, activeTab, routeLayer>>
           ELSE /\ panes' = shown.panes
                /\ ActivateTab("cheapest", rs)
                /\ resultsTabsHidden' = FALSE
                /\ event' = Event("find-routes", i, "shown", NoAlert)
                /\ IF flightNumbers = <<>>
                   THEN Finally(i)
                   ELSE /\ searches' = [searches EXCEPT
                               ![i].pc = "validate",
                               ![i].payload = flightNumbers]
                        /\ UNCHANGED loadingSpinnerHidden
    /\ UNCHANGED warnings
    /\ SearchFrame

\* The warning list after showCollisionWarning(conflicts) in run i.
ShowCollisionWarning(i, conflicts) ==
    InsertWarning(warnings, Warning(i, conflicts))

\* Bodies the validation endpoint answers with for the flight numbers sent;
\* conflicted_flights is a set holding the array, empty when the field is
\* missing.
ValidationBodies(payload) ==
    { [conflicts_detected |-> FALSE, conflicted_flights |-> {<<>>}],
      [conflicts_detected |-> TRUE, conflicted_flights |-> {}] }
    \cup { [conflicts_detected |-> TRUE,
            conflicted_flights |-> {<<[flight |-> f, reason |-> "gate"]>>}] :
            f \in IF payload = <<>> THEN {} ELSE {payload[1]} }

\* The outcome recorded for a validation body.
ValidationOutcome(v) ==
    IF ~v.conflicts_detected THEN "no-conflicts"
    ELSE IF v.conflicted_flights = {} THEN "malformed" ELSE "conflicts"

\* Mutant of ValidationEnds: a failed validation is reported like a failed
\* route search and the results are taken down.
ValidationEndsLoudly(i, outcome, w) ==
    /\ i \in 1..Len(searches) /\ searches[i].pc = "validate"
    /\ warnings' = w
    /\ Finally(i)
    /\ resultsTabsHidden' =
           IF outcome \in {"rejected", "not_ok", "malformed"}
           THEN TRUE ELSE resultsTabsHidden
    /\ event' = Event("validate-path", i, outcome,
                      IF outcome \in {"rejected", "not_ok", "malformed"}
                      THEN FetchErrorAlert(outcome) ELSE NoAlert)
    /\ UNCHANGED <<startInput, collisionPanelHidden, collisionLoadingHidden,
                   collisionData, panes, activeTab, routeLayer,
                   currentResults, loads>>

\* The rest of validateCurrentPath and of the submit handler in run i once
\* the validation request is settled with outcome, leaving warning list w.
ValidationEnds(i, outcome, w) ==
    /\ i \in 1..Len(searches) /\ searches[i].pc = "validate"
    /\ warnings' = w
    /\ Finally(i)
    /\ event' = Event("validate-path", i, outcome, NoAlert)
    /\ UNCHANGED <<startInput, resultsTabsHidden, collisionPanelHidden,
                   collisionLoadingHidden, collisionData, panes, activeTab,
                   routeLayer, currentResults, loads>>

\* fetch('/api/validate-path') or response.json() rejects: console.error.
ValidateRejected(i) == ValidationEnds(i, "rejected", warnings)

\* The validation response is not ok: nothing is done with it.
ValidateNotOk(i) == ValidationEnds(i, "not_ok", warnings)

\* const validation = await response.json() and the rest of
\* validateCurrentPath; a missing conflicted_flights makes
\* showCollisionWarning throw before it touches the page.
ValidationReceived(i, v) ==
    ValidationEnds(i, ValidationOutcome(v),
        IF v.conflicts_detected /\ v.conflicted_flights # {}
        THEN ShowCollisionWarning(i, CHOOSE c \in v.conflicted_flights : TRUE)
        ELSE warnings)

\* ------------------------------------------------------------ specification

Runs == 1..Len(searches)

Next ==
    \/ \E v \in StartInputs : EditStart(v)
    \/ \E t \in Criteria : TabClick(t)
    \/ ViewCollisions
    \/ CloseCollisions
    \/ ReportRejected
    \/ ReportNotOk
    \/ ReportReceived
    \/ Submit
    \/ \E i \in Runs : FetchRoutesRejected(i)
    \/ \E i \in Runs : FetchRoutesNotOk(i)
    \/ \E i \in Runs : \E rs \in ResultSets : RoutesReceived(i, rs)
    \/ \E i \in Runs : ValidateRejected(i)
    \/ \E i \in Runs : ValidateNotOk(i)
    \/ \E i \in Runs : \E v \in ValidationBodies(searches[i].payload) :
          ValidationReceived(i, v)

Spec == Init /\ [][Next]_vars

\* The request run i of the submit handler is waiting for is settled: the
\* route search or the conflict validation resolves or rejects.
RequestSettles(i) ==
    /\ i \in Runs
    /\ \/ FetchRoutesRejected(i)
       \/ FetchRoutesNotOk(i)
       \/ \E rs \in ResultSets : RoutesReceived(i, rs)
       \/ ValidateRejected(i)
       \/ ValidateNotOk(i)
       \/ \E v \in ValidationBodies(searches[i].payload) :
             ValidationReceived(i, v)

\* The page when every request a run of the submit handler issues is
\* eventually settled by the network (fetch resolves or rejects; the event
\* loop then resumes the handler).
LiveSpec ==
    Init /\ [][Next]_vars /\ \A i \in 1..MaxSearches : WF_vars(RequestSettles(i))

\* ------------------------------------------------------------------ claims

\* The step just taken was made by handler.
By(handler) == event'.handler = handler

\* Run i issues its conflict-validation request in this step.
Issues(i) == searches[i].pc # "validate" /\ searches'[i].pc = "validate"

\* The flight numbers of all legs of all criteria of a result set.
FlightNumbersOf(results) ==
    UNION { {results[k].path[j].flight_number : j \in 1..Len(results[k].path)} :
            k \in {c \in DOMAIN results : "path" \in DOMAIN results[c]} }

\* The route layer is a drawing of the stored route of the active tab, from
\* whichever start airport the user can have typed.
MapInSync ==
    \E s \in {ToUpperCase(v) : v \in StartInputs} :
        routeLayer = DrawMapRoute(PathOf(currentResults, activeTab), s).layers

\* C1: a conflict-validation response of a search older than the current one
\* is discarded: when run i gets its validation response with conflicts after
\* a later search was submitted, no warning banner is inserted and the view
\* state (panes, active tab, stored results, map, panels) does not change.
C1_StaleValidationDiscarded ==
    [][\A i \in 1..Len(searches) :
          (/\ searches[i].pc = "validate"
           /\ searches'[i].pc = "done"
           /\ i < Len(searches)
           /\ event'.outcome = "conflicts")
          => UNCHANGED <<warnings, panes, activeTab, currentResults,
                         routeLayer, resultsTabsHidden,
                         collisionPanelHidden>>]_vars

\* C2: a search submission clears the warnings and the map overlay of the
\* previous search: after the submit step the results panel holds no
\* warning banner and the route layer is empty.
C2_SubmitClearsWarningsAndMap ==
    [][By("submit") => (warnings' = <<>> /\ routeLayer' = <<>>)]_vars

\* C3: a response without any found route surfaces the no-route message,
\* renders no pane, issues no validation request and does not show the
\* results panel, and closing the opened conflict panel afterwards leaves
\* the results panel hidden.
C3_NoRouteStaysEmpty ==
    [][/\ (/\ By("find-routes")
           /\ event'.outcome \notin {"rejected", "not_ok"}
           /\ ~HasAnyRoute(currentResults'))
            => /\ event'.alert.text = "No routes found between"
               /\ searches'[event'.run].pc = "done"
               /\ UNCHANGED <<panes, resultsTabsHidden>>
       /\ (/\ By("close-collisions")
           /\ ~collisionPanelHidden
           /\ DOMAIN currentResults # {}
           /\ ~HasAnyRoute(currentResults))
            => resultsTabsHidden']_vars

\* C4: whenever the results panel is visible the route layer holds exactly
\* the drawing of the stored route of the active tab (nothing when that
\* criterion has no path).
C4_MapInSyncWithActiveTab == ~resultsTabsHidden => MapInSync

\* C5: a validation response with conflicts_detected = true inserts exactly
\* one warning banner, ahead of what the results panel held, and leaves the
\* panes, the active tab, the stored results and the map overlay unchanged.
C5_WarningInsertedAhead ==
    [][(By("validate-path") /\ event'.outcome = "conflicts")
       => /\ Len(warnings') = Len(warnings) + 1
          /\ Tail(warnings') = warnings
          /\ Head(warnings').search = event'.run
          /\ UNCHANGED <<panes, activeTab, currentResults, routeLayer>>]_vars

C5_Witness ==
    /\ event.handler = "validate-path" /\ event.outcome = "conflicts"
    /\ Len(warnings) = 2
    /\ ~resultsTabsHidden
    /\ panes["cheapest"].kind = "route"

\* C6: the validation request is issued only in the step in which the route
\* search resolved with at least one found route, at most once per search,
\* and its flight_numbers are the flight numbers of all legs of all criteria
\* of that result set, each once.
C6_ValidationRequest ==
    [][\A i \in 1..Len(searches) :
          /\ Issues(i) =>
                /\ searches[i].pc = "fetch"
                /\ By("find-routes") /\ event'.run = i
                /\ HasAnyRoute(currentResults')
                /\ LET p == searches'[i].payload
                   IN  /\ {p[j] : j \in 1..Len(p)} =
                              FlightNumbersOf(currentResults')
                       /\ \A a, b \in 1..Len(p) : p[a] = p[b] => a = b
          /\ searches[i].pc # "fetch" => searches'[i].pc # "fetch"]_vars

C6_Witness ==
    \E i \in 1..Len(searches) :
        /\ searches[i].pc = "validate"
        /\ currentResults = RSFull
        /\ searches[i].payload = <<"AA100", "UA200", "DL300">>

\* C7: the panes are rendered and the results panel is visible when the
\* validation request is issued, and a validation that fails (rejection,
\* non-2xx, malformed body) leaves the results panel, the panes, the active
\* tab, the stored results and the map as they were and raises no alert and
\* no inline error.
C7_ValidationNeverFailsResults ==
    [][/\ \A i \in 1..Len(searches) :
             Issues(i) =>
                /\ ~resultsTabsHidden'
                /\ \A k \in DOMAIN currentResults' :
                      panes'[k] =
                          RenderPane(currentResults'[k], searches[i].start)
       /\ (/\ By("validate-path")
           /\ event'.outcome \in {"rejected", "not_ok", "malformed"})
            => /\ UNCHANGED <<resultsTabsHidden, panes, activeTab,
                              currentResults, routeLayer, warnings,
                              collisionData>>
               /\ event'.alert = NoAlert]_vars

C7_Witness ==
    /\ event.handler = "validate-path"
    /\ event.outcome \in {"rejected", "not_ok", "malformed"}
    /\ ~resultsTabsHidden
    /\ panes["fastest"].kind = "route"
    /\ routeLayer # <<>>

\* C8: closing the conflict panel hides it and shows the results panel when
\* currentResults holds a result set, and leaves the results panel hidden
\* when no search has produced one; opening the conflict panel hides the
\* results panel and shows the conflict panel.
C8_OpenAndCloseConflictPanel ==
    [][/\ By("close-collisions")
            => /\ collisionPanelHidden'
               /\ resultsTabsHidden' = (DOMAIN currentResults = {})
       /\ By("view-collisions")
            => /\ resultsTabsHidden'
               /\ ~collisionPanelHidden']_vars

C8_Witness ==
    /\ event.handler = "close-collisions"
    /\ DOMAIN currentResults = {}
    /\ resultsTabsHidden
    /\ collisionPanelHidden
    /\ collisionData = CollisionReport

\* C9: a tab click changes only the active tab and the map overlay: the
\* panes, the stored results, the warning banners and the visibility of the
\* two panels stay, and the map holds the drawing of the route of the newly
\* active criterion alone.
C9_TabClickFrame ==
    [][By("tab")
       => /\ UNCHANGED <<panes, currentResults, warnings, resultsTabsHidden,
                         collisionPanelHidden>>
          /\ activeTab' = event'.outcome
          /\ routeLayer' =
                 DrawMapRoute(PathOf(currentResults, activeTab'),
                              ToUpperCase(startInput)).layers]_vars

C9_Witness ==
    /\ event.handler = "tab"
    /\ activeTab = "fastest"
    /\ ~resultsTabsHidden
    /\ Len(warnings) > 0
    /\ Len(routeLayer) = 3

\* C10, as claimed: a non-2xx response on any of the three requests surfaces
\* a user-visible error message.
C10_EveryNon2xxSurfacesError ==
    [][event'.outcome = "not_ok"
       => \/ event'.alert # NoAlert
          \/ (collisionData' # collisionData
              /\ collisionData'.text = "Error loading collision data")]_vars

\* C10, amended: a non-2xx response on the route search raises the alert
\* naming the fetch of flight data, one on the conflict report puts the
\* error naming the collision data in the panel, one on the conflict
\* validation surfaces nothing; in each case the handler runs to its end.
C10_Non2xxHandled ==
    [][event'.outcome = "not_ok"
       => /\ By("find-routes")
               => /\ event'.alert = FetchErrorAlert("HTTP error! status")
                  /\ searches'[event'.run].pc = "done"
                  /\ loadingSpinnerHidden'
          /\ By("collision-report")
               => /\ collisionData' =
                         CollisionError("Failed to fetch collision data")
                  /\ collisionLoadingHidden'
                  /\ loads' = loads - 1
                  /\ event'.alert = NoAlert
          /\ By("validate-path")
               => /\ event'.alert = NoAlert
                  /\ UNCHANGED <<collisionData, warnings>>
                  /\ searches'[event'.run].pc = "done"
                  /\ loadingSpinnerHidden']_vars

C10_Witness ==
    /\ event.handler = "find-routes" /\ event.outcome = "not_ok"
    /\ collisionData = CollisionError("Failed to fetch collision data")
    /\ \E i \in 1..Len(searches) : searches[i].pc = "validate"

\* C11: whichever way the requests of the submitted searches end (transport
\* error, non-2xx, no route found, an exception while rendering, a failed
\* validation), and provided each request issued is eventually settled,
\* every run of the submit handler comes to its end and the loading spinner
\* is hidden; this holds for a search submitted after a failed one as for
\* the first.
C11_EveryRunEndsSpinnerHidden ==
    (\E i \in Runs : searches[i].pc # "done")
        ~> (/\ \A i \in Runs : searches[i].pc = "done"
            /\ loadingSpinnerHidden)

\* A second search was accepted and shown to its end after the first one
\* threw while rendering (its cheapest pane is all that is left of it).
C11_Witness ==
    /\ Len(searches) = 2
    /\ \A i \in 1..2 : searches[i].pc = "done"
    /\ loadingSpinnerHidden
    /\ ~resultsTabsHidden
    /\ currentResults = RSPartial
    /\ panes["cheapest"].kind = "route" /\ panes["cheapest"].stops = 0
    /\ panes["fastest"].kind = "route"
    /\ event.handler = "validate-path" /\ event.run = 2

\* The result arrives before it departs: its last leg's arrival is before
\* its first leg's departure.
ArrivesBeforeDeparture(result) ==
    /\ result.status = "found" /\ result.path # <<>>
    /\ result.path[Len(result.path)].arrival_utc
           < result.path[1].departure_utc

\* C12: when a result set is rendered, the pane of a found route that
\* arrives before it departs holds the data-error notice and nothing else
\* (no cost, duration or stops and no leg entry), and the panes of the other
\* criteria of the result set hold their route with all its legs or the
\* no-route notice.
C12_InvalidRouteShowsOnlyNotice ==
    [][(By("find-routes") /\ event'.outcome = "shown")
       => \A k \in DOMAIN currentResults' :
             LET result == currentResults'[k]
             IN  IF ArrivesBeforeDeparture(result)
                 THEN /\ panes'[k].kind = "data-error"
                      /\ DOMAIN panes'[k] = {"kind"}
                 ELSE IF result.status = "found"
                 THEN /\ panes'[k].kind = "route"
                      /\ panes'[k].totalCost = SumCost(result.path)
                      /\ panes'[k].stops = Len(result.path) - 1
                      /\ Len(panes'[k].legs) = Len(result.path)
                 ELSE panes'[k].kind = "no-route"]_vars

C12_Witness ==
    /\ event.handler = "find-routes" /\ event.outcome = "shown"
    /\ ArrivesBeforeDeparture(currentResults["best"])
    /\ panes["best"] = [kind |-> "data-error"]
    /\ panes["fastest"].kind = "route"
    /\ Len(panes["fastest"].legs) = 3

\* C13: once the panes of a result set are populated the active tab is the
\* first criterion, in the order cheapest, fastest, best, that the result
\* set has a key for, and the map holds the drawing of that criterion's
\* route.
C13_DefaultTabFirstKeyPresent ==
    [][(By("find-routes") /\ event'.outcome = "shown")
       => LET first == Head(KeysOf(currentResults'))
          IN  /\ activeTab' = first
              /\ \E s \in {ToUpperCase(v) : v \in StartInputs} :
                    routeLayer' =
                        DrawMapRoute(PathOf(currentResults', first), s).layers
      ]_vars

\* The points of a route from startNode, in order (the start, then the
\* destination of each leg), that have coordinates.
PointsWithCoordinates(path, startNode) ==
    SelectSeq(<<startNode>> \o [i \in 1..Len(path) |-> path[i].destination],
              LAMBDA c : c \in HasCoordinates)

\* C14: a tab click on a criterion with a route draws the points of the
\* route that have coordinates, in order, whichever points lack them (the
\* start airport or a leg destination): one marker for each of them and
\* the path through exactly them.
C14_MissingPointsDropped ==
    [][(By("tab") /\ PathOf(currentResults, activeTab') # {})
       => LET path == CHOOSE x \in PathOf(currentResults, activeTab') : TRUE
              pts == PointsWithCoordinates(path, ToUpperCase(startInput))
          IN  /\ Len(routeLayer') = Len(pts) + 1
              /\ \A i \in 1..Len(pts) :
                    /\ routeLayer'[i].type = "marker"
                    /\ routeLayer'[i].at = pts[i]
              /\ routeLayer'[Len(pts) + 1] =
                     [type |-> "polyline", points |-> pts]]_vars

\* What one call of drawMapRoute for criterion tabId of results leaves in a
\* route layer that was empty.
DrawnOnce(results, tabId) ==
    DrawMapRoute(PathOf(results, tabId), ToUpperCase(startInput)).layers

\* C15: redrawing does not accumulate: after every step that calls
\* drawMapRoute (a tab click, the display of a result set) the route layer
\* holds the markers and the path of that call alone, whatever it held
\* before; a tab click that redraws the route already drawn leaves the
\* layer as it was; and the layer never holds more than one path.
C15_RedrawDoesNotAccumulate ==
    [][/\ (By("tab") \/ (By("find-routes") /\ event'.outcome = "shown"))
            => routeLayer' = DrawnOnce(currentResults', activeTab')
       /\ (By("tab") /\ routeLayer = DrawnOnce(currentResults, activeTab'))
            => routeLayer' = routeLayer
       /\ Cardinality({i \in 1..Len(routeLayer') :
                          routeLayer'[i].type = "polyline"}) <= 1]_vars

\* The cheapest route was drawn on show and drawn again by a click on its
\* tab.
C15_Witness ==
    /\ event.handler = "tab" /\ event.outcome = "cheapest"
    /\ currentResults = RSFull
    /\ startInput = "jfk"
    /\ ~resultsTabsHidden
    /\ Len(routeLayer) = 4
    /\ \A i \in Runs : searches[i].start = "JFK"

\* C16: when a result set is rendered, the pane of every found route that
\* does not arrive before it departs has one entry per leg, in flight
\* order, and the origin shown for a leg is the start airport of the search
\* for the first leg and the destination of the leg before it otherwise,
\* also when the leg before it is flagged for invalid times.
C16_LegOriginsChained ==
    [][(By("find-routes") /\ event'.outcome = "shown")
       => \A k \in DOMAIN currentResults' :
             LET result == currentResults'[k]
                 start == searches[event'.run].start
             IN  (result.status = "found" /\ ~ArrivesBeforeDeparture(result))
                 => /\ panes'[k].kind = "route"
                    /\ Len(panes'[k].legs) = Len(result.path)
                    /\ \A j \in 1..Len(result.path) :
                          LET entry == panes'[k].legs[j]
                          IN  /\ entry.flight_number =
                                     result.path[j].flight_number
                              /\ entry.kind = "leg" =>
                                     entry.origin =
                                         IF j = 1 THEN start
                                         ELSE result.path[j - 1].destination
      ]_vars

\* A rendered route whose second leg is flagged and whose third leg starts
\* where the flagged leg ends.
C16_Witness ==
    /\ event.handler = "find-routes" /\ event.outcome = "shown"
    /\ currentResults = RSPartial
    /\ panes["fastest"].kind = "route"
    /\ panes["fastest"].legs[1].origin = searches[event.run].start
    /\ panes["fastest"].legs[2].kind = "error-leg"
    /\ panes["fastest"].legs[3].kind = "leg"
    /\ panes["fastest"].legs[3].origin = "ZZZ"

\* C17: the results panel and the conflict-report panel are never both
\* visible.
C17_PanelsNeverBothVisible == resultsTabsHidden \/ collisionPanelHidden

\* Every pane of a criterion the stored result set has an entry for holds
\* the rendering of that entry (for the start airport of some search).
PanesAgree ==
    \A k \in DOMAIN currentResults :
        /\ ~RenderThrows(currentResults[k])
        /\ \E s \in {ToUpperCase(v) : v \in StartInputs} :
              panes[k] = RenderPane(currentResults[k], s)

\* C18: after every step that leaves the results panel visible (a click on
\* the close button of a conflict panel that is not open aside) the panes
\* agree with the stored result set.
C18_PanesAgreeWithStoredResults ==
    [][(/\ ~resultsTabsHidden'
        /\ ~(By("close-collisions") /\ collisionPanelHidden))
       => PanesAgree']_vars

\* C19: once the search submitted last has had its route response
\* processed and its results are on display, the route response of a search submitted before it changes
\* neither the stored result set nor the panes nor the map.
C19_LastSubmittedSearchWins ==
    [][(/\ By("find-routes")
        /\ event'.run < Len(searches)
        /\ searches[Len(searches)].pc # "fetch"
        /\ ~resultsTabsHidden)
       => UNCHANGED <<currentResults, panes, activeTab, routeLayer>>]_vars

\* C20: a tab click on a criterion with a stored route draws the route from
\* a start airport that was submitted with a search whose response has been
\* received, whatever the start-airport input holds by then.
C20_TabClickUsesSubmittedStart ==
    [][(By("tab") /\ PathOf(currentResults, activeTab') # {})
       => \E i \in Runs :
             /\ searches[i].pc # "fetch"
             /\ routeLayer' =
                    DrawMapRoute(PathOf(currentResults, activeTab'),
                                 searches[i].start).layers]_vars

\* A duration of ms milliseconds rounded to the nearest minute, in minutes.
NearestMinute(ms) == (ms + (MsPerMinute \div 2)) \div MsPerMinute

\* The hours and minutes shown are the whole hours and the remainder
\* minutes of a duration of ms milliseconds.
ShownAsHoursAndMinutes(shown, ms) ==
    /\ shown.minutes \in 0..59
    /\ shown.hours * 60 + shown.minutes = NearestMinute(ms)

\* C21: when a result set is rendered, every duration shown (the total of a
\* route and the duration of each of its legs that is not flagged) has its
\* minutes in 0..59, and its hours and minutes add up to the duration
\* rounded to the nearest minute.
C21_MinutesBelowSixty ==
    [][(By("find-routes") /\ event'.outcome = "shown")
       => \A k \in DOMAIN currentResults' :
             panes'[k].kind = "route"
             => LET path == currentResults'[k].path
                IN  /\ ShownAsHoursAndMinutes(panes'[k],
                           path[Len(path)].arrival_utc
                               - path[1].departure_utc)
                    /\ \A j \in 1..Len(path) :
                          panes'[k].legs[j].kind = "leg"
                          => ShownAsHoursAndMinutes(panes'[k].legs[j],
                                 path[j].arrival_utc
                                     - path[j].departure_utc)]_vars

====
